---- MODULE Spec2Model ----
(***************************************************************************)
(* candle-lava: the generation loop of main.rs and the image-feature       *)
(* merge / embedding fusion of model.rs.                                   *)
(*                                                                         *)
(* SpecLoop runs the loop of main.rs:225-253 twice side by side, once with *)
(* cache.use_kv_cache = TRUE and once with FALSE, on the same fused input. *)
(* SpecFuse runs LLaVA::prepare_inputs_labels_for_multimodal on one image, *)
(* SpecMulti on several images. SpecSetup runs main from the match on      *)
(* torch_dtype through ClipVisionTower::load to that call.                 *)
(* An embedding (one row of hidden_size numbers) is one value of the       *)
(* model: the hidden axis is never split by the code modelled here.        *)
(***************************************************************************)
EXTENDS Integers, Sequences, FiniteSets, TLC

\* ---------------------------------------------------------------- bounds
MaxNewTokens == 3
MaxPrefill == 2
VocabSize == 3
NumEmbeds == 2
NumSeeds == 2
MaxSide == 2
MaxGrid == 2
MaxTiles == 5
MaxPixels == 3
HiddenSize == 2
PatchPixels == 2
MaxLength == 2
NumLayers == 2
MaxImages == 3
EmbedDim == 2

Vocab == 0 .. (VocabSize - 1)
Modes == BOOLEAN

VARIABLES
    \* inputs of the generation loop
    max_new_tokens, eos_token_id, seed, input_embeds,
    \* state of the loop, one copy per value of cache.use_kv_cache
    index, index_pos, embeds, cache, out, pc,
    \* what each iteration did (read by the properties only)
    fed, sampled,
    \* configuration and arguments of prepare_inputs_labels_for_multimodal
    mm_patch_merge_type, image_aspect_ratio, select_feature_method,
    vision_config, images, image_sizes, grid_shape, input_ids,
    tokenizer_model_max_length,
    \* its progress: the merged blocks, the shape unpad_image returned,
    \* and how the call ended
    image_features, unpad_shape, fpc, outcome, return_value,
    \* configuration read while main sets the model up, and how far the
    \* setup is
    torch_dtype, mm_vision_tower, mm_vision_select_layer, spc,
    \* the message of the error that ended the run
    message,
    \* what the vision tower did (read by the properties only): whether its
    \* model was constructed, how often it ran, the shapes of the hidden
    \* states of its last run and what ClipVisionTower::forward returned
    model_constructed, forward_calls, hidden_shapes, tower_output

loopVars == <<max_new_tokens, eos_token_id, seed, input_embeds,
              index, index_pos, embeds, cache, out, pc, fed, sampled>>

fuseVars == <<mm_patch_merge_type, image_aspect_ratio, select_feature_method,
              vision_config, images, image_sizes, grid_shape, input_ids,
              tokenizer_model_max_length,
              image_features, unpad_shape, fpc, outcome, return_value>>

setupConfig == <<torch_dtype, mm_vision_tower, mm_vision_select_layer>>

towerVars == <<model_constructed, forward_calls, hidden_shapes, tower_output>>

setupVars == <<setupConfig, spc, message, towerVars>>

vars == <<loopVars, fuseVars, setupVars>>

\* ------------------------------------------------------------ sequences
RECURSIVE SumSeq(_)
SumSeq(s) == IF s = <<>> THEN 0 ELSE Head(s) + SumSeq(Tail(s))

Min(a, b) == IF a < b THEN a ELSE b

\* usize::saturating_sub
SaturatingSub(a, b) == IF a >= b THEN a - b ELSE 0

\* tensor.i(from..) along the sequence axis
DropFirst(s, from) == SubSeq(s, from + 1, Len(s))

\* -------------------------------------------------------------- tensors
\* A tensor is its shape and its elements in row-major order; a failed
\* operation is a record with the one field err ("error" for an Err the
\* ? operator hands to the caller, "panic" for an unwind), and every
\* operation hands a failed operand on.
RECURSIVE Prod(_)
Prod(dims) == IF dims = <<>> THEN 1 ELSE Head(dims) * Prod(Tail(dims))

Front(s) == SubSeq(s, 1, Len(s) - 1)

RECURSIVE Unravel(_, _)
Unravel(i, dims) ==
    IF dims = <<>> THEN <<>>
    ELSE Append(Unravel(i \div dims[Len(dims)], Front(dims)),
                i % dims[Len(dims)])

RECURSIVE Ravel(_, _)
Ravel(idx, dims) ==
    IF dims = <<>> THEN 0
    ELSE Ravel(Front(idx), Front(dims)) * dims[Len(dims)] + idx[Len(idx)]

Error == [err |-> "error"]
\* bail!: an Err with a message of the code's own
Bail(text, value) == [err |-> "error", text |-> text, value |-> value]
Panic == [err |-> "panic"]
IsErr(t) == "err" \in DOMAIN t
Tensor(dims, data) == [dims |-> dims, data |-> data]
At(t, idx) == t.data[Ravel(idx, t.dims) + 1]

\* Result::unwrap
Unwrap(t) == IF IsErr(t) THEN Panic ELSE t

\* Tensor::permute, axes numbered from 0 as in the source
Permute(t, perm) ==
    IF IsErr(t) THEN t
    ELSE LET nd == [k \in 1 .. Len(perm) |-> t.dims[perm[k] + 1]]
             from(d) == CHOOSE k \in 1 .. Len(perm) : perm[k] + 1 = d
         IN  Tensor(nd, [i \in 1 .. Prod(nd) |->
                 LET ni == Unravel(i - 1, nd)
                 IN  At(t, [d \in 1 .. Len(t.dims) |-> ni[from(d)]])])

\* Tensor::flatten(a, b), both ends included
Flatten(t, a, b) ==
    IF IsErr(t) THEN t
    ELSE Tensor(SubSeq(t.dims, 1, a)
                  \o <<Prod(SubSeq(t.dims, a + 1, b + 1))>>
                  \o SubSeq(t.dims, b + 2, Len(t.dims)),
                t.data)

\* Tensor::reshape((lead.., ())): the last extent is inferred
ReshapeHole(t, lead) ==
    IF IsErr(t) THEN t
    ELSE IF Prod(lead) = 0 \/ Prod(t.dims) % Prod(lead) # 0 THEN Error
    ELSE Tensor(Append(lead, Prod(t.dims) \div Prod(lead)), t.data)

\* Tensor::reshape to a full shape
Reshape(t, dims) ==
    IF IsErr(t) THEN t
    ELSE IF Prod(t.dims) # Prod(dims) THEN Error
    ELSE Tensor(dims, t.data)

\* Tensor::narrow(dim, start, len)
Narrow(t, dim, start, len) ==
    IF IsErr(t) THEN t
    ELSE IF start > t.dims[dim + 1] \/ start + len > t.dims[dim + 1]
    THEN Error
    ELSE LET nd == [t.dims EXCEPT ![dim + 1] = len]
         IN  Tensor(nd, [i \in 1 .. Prod(nd) |->
                 LET ni == Unravel(i - 1, nd)
                 IN  At(t, [ni EXCEPT ![dim + 1] = @ + start])])

\* tensor.i(start..stop) on one axis: narrow(start, stop.saturating_sub(start));
\* a range with stop <= start inside the axis gives an empty tensor
IndexRange(t, dim, start, stop) ==
    Narrow(t, dim, start, IF stop >= start THEN stop - start ELSE 0)

\* tensor.get(n): narrow to one index of axis 0 and squeeze it
Get(t, n) ==
    LET r == Narrow(t, 0, n, 1)
    IN  IF IsErr(r) THEN r ELSE Tensor(Tail(r.dims), r.data)

\* Tensor::unsqueeze(0)
Unsqueeze0(t) == IF IsErr(t) THEN t ELSE Tensor(<<1>> \o t.dims, t.data)

\* Tensor::cat(&[a, b], dim)
Cat(a, b, dim) ==
    IF IsErr(a) THEN a
    ELSE IF IsErr(b) THEN b
    ELSE IF \/ Len(a.dims) # Len(b.dims)
            \/ \E d \in 1 .. Len(a.dims) :
                  d # dim + 1 /\ a.dims[d] # b.dims[d]
    THEN Error
    ELSE LET nd == [a.dims EXCEPT ![dim + 1] = @ + b.dims[dim + 1]]
         IN  Tensor(nd, [i \in 1 .. Prod(nd) |->
                 LET ni == Unravel(i - 1, nd)
                 IN  IF ni[dim + 1] < a.dims[dim + 1]
                     THEN At(a, ni)
                     ELSE At(b, [ni EXCEPT ![dim + 1] = @ - a.dims[dim + 1]])])

\* Tensor::broadcast_as
BroadcastAs(t, nd) ==
    IF IsErr(t) THEN t
    ELSE IF \/ Len(nd) # Len(t.dims)
            \/ \E d \in 1 .. Len(nd) : t.dims[d] # 1 /\ t.dims[d] # nd[d]
    THEN Error
    ELSE Tensor(nd, [i \in 1 .. Prod(nd) |->
             LET ni == Unravel(i - 1, nd)
             IN  At(t, [d \in 1 .. Len(nd) |->
                           IF t.dims[d] = 1 THEN 0 ELSE ni[d]])])

\* ------------------------------------------------------ f32 arithmetic
\* A positive f32 is <<m, k>> = m / 2^k with 2^23 <= m < 2^24 (normal
\* numbers; the extents and pixel sizes of the model are far from the
\* subnormal and the overflow range). Every intermediate value stays
\* below 2^31 for operands below 2^12.
Two23 == 8388608
Two24 == 16777216
Two12 == 4096

RECURSIVE Pow2(_)
Pow2(n) == IF n = 0 THEN 1 ELSE 2 * Pow2(n - 1)

\* round to nearest, ties to even: q the quotient so far, r / den the rest
RoundBit(q, r, den) ==
    IF 2 * r > den \/ (2 * r = den /\ q % 2 = 1) THEN q + 1 ELSE q

F32Norm(m, k) == IF m = Two24 THEN <<Two23, k - 1>> ELSE <<m, k>>

\* long division, one bit of the quotient per step, until it has 24 bits
RECURSIVE F32DivBits(_, _, _, _)
F32DivBits(q, r, den, k) ==
    IF q >= Two23 THEN F32Norm(RoundBit(q, r, den), k)
    ELSE IF 2 * r >= den THEN F32DivBits(2 * q + 1, 2 * r - den, den, k + 1)
    ELSE F32DivBits(2 * q, 2 * r, den, k + 1)

\* (a as f32) / (b as f32) for positive integers
F32Div(a, b) == F32DivBits(a \div b, a % b, b, 0)

\* the product hi * 2^12 + lo scaled down until it has 24 bits, the bits
\* dropped rounded
RECURSIVE F32FitDown(_, _, _, _)
F32FitDown(hi, lo, k, s) ==
    LET q == hi * Pow2(12 - s) + (lo \div Pow2(s))
    IN  IF hi < Pow2(12 + s) /\ q < Two24
        THEN F32Norm(RoundBit(q, lo % Pow2(s), Pow2(s)), k - s)
        ELSE F32FitDown(hi, lo, k, s + 1)

\* (n as f32) * x, the 24-bit significand of x taken in two halves
F32MulInt(n, x) ==
    F32FitDown(n * (x[1] \div Two12), n * (x[1] % Two12), x[2], 0)

\* x > y
F32Gt(x, y) == x[2] < y[2] \/ (x[2] = y[2] /\ x[1] > y[1])

\* x.floor() as usize
F32Floor(x) == IF x[2] >= 0 THEN x[1] \div Pow2(x[2]) ELSE x[1] * Pow2(-x[2])

\* ------------------------------------------- collaborators of the loop
\* llama.embed: the row of the embedding table for a token id
Embed(t) == NumEmbeds + t

\* The decoder stack: the keys/values of the submitted embeddings sit at
\* positions context_index, context_index + 1, ...; with the cache enabled
\* they are appended to it and attention reads the cache, without it
\* attention reads the submitted embeddings alone.
Positioned(input, context_index) ==
    [j \in 1 .. Len(input) |-> <<context_index + j - 1, input[j]>>]

CacheAfter(use_kv_cache, c, input, context_index) ==
    IF use_kv_cache THEN c \o Positioned(input, context_index) ELSE c

Attended(use_kv_cache, c, input, context_index) ==
    IF use_kv_cache THEN c \o Positioned(input, context_index)
    ELSE Positioned(input, context_index)

\* logits at the last position followed by logits_processor.sample: a
\* function of the attended (position, embedding) pairs and of the state
\* of the seeded generator, which advances once per sample.
Sample(view, nth) ==
    (SumSeq([j \in 1 .. Len(view) |-> (view[j][1] + 1) * (view[j][2] + 1)])
       + seed * (nth + 1)) % VocabSize

\* SpecLoop leaves the fusion alone: no call of it is in progress
FuseIdle ==
    /\ mm_patch_merge_type = <<>>
    /\ image_aspect_ratio = ""
    /\ select_feature_method = ""
    /\ vision_config = [image_size |-> PatchPixels, patch_size |-> PatchPixels]
    /\ images = <<>>
    /\ image_sizes = <<>>
    /\ grid_shape = <<1, 1>>
    /\ input_ids = <<>>
    /\ tokenizer_model_max_length = <<>>
    /\ image_features = <<>>
    /\ unpad_shape = <<>>
    /\ fpc = "idle"
    /\ outcome = "none"
    /\ return_value = <<>>

\* ------------------------------- main.rs:128-145, model.rs:117-144
\* the one tower ClipVisionTower::load knows
ClipVitLarge336 == "openai/clip-vit-large-patch14-336"

\* the message of an error: its text and, in a sequence, the value
\* formatted into it (none for a text without a placeholder)
Message(text, value) == [text |-> text, value |-> value]
NoMessage == Message("", <<>>)

\* the model is set up with a configuration the code accepts
SetupDone ==
    /\ torch_dtype = "float16"
    /\ mm_vision_tower = ClipVitLarge336
    /\ mm_vision_select_layer = -2
    /\ spc = "loaded"
    /\ message = NoMessage
    /\ model_constructed = TRUE
    /\ forward_calls = 0
    /\ hidden_shapes = <<>>
    /\ tower_output = <<>>

\* main.rs:129-133: the match on torch_dtype
ParseDtype ==
    /\ spc = "dtype"
    /\ IF torch_dtype \in {"float16", "bfloat16"}
       THEN /\ spc' = "load"
            /\ UNCHANGED message
       ELSE /\ spc' = "failed"
            /\ message' = Message("unsupported dtype", <<>>)
    /\ UNCHANGED <<setupConfig, towerVars>>
    /\ UNCHANGED <<loopVars, fuseVars>>

\* ClipVisionTower::load, called by LLaVA::load (main.rs:145): the tower
\* name, then the select layer, then the construction of the model
LoadTower ==
    /\ spc = "load"
    /\ IF mm_vision_tower # ClipVitLarge336
       THEN /\ spc' = "failed"
            /\ message' = Message("vision tower {} is not implemented yet",
                                  <<mm_vision_tower>>)
            /\ UNCHANGED model_constructed
       ELSE IF mm_vision_select_layer \notin {-1, -2}
       THEN /\ spc' = "failed"
            /\ message' = Message("Unsupported select layer: {}",
                                  <<mm_vision_select_layer>>)
            /\ UNCHANGED model_constructed
       ELSE /\ spc' = "loaded"
            /\ model_constructed' = TRUE
            /\ UNCHANGED message
    /\ UNCHANGED <<setupConfig, forward_calls, hidden_shapes, tower_output>>
    /\ UNCHANGED <<loopVars, fuseVars>>

\* ------------------------------------------------------ main.rs:225-253
ContextSizeMutant(use_kv_cache, i, input_embeds_len) ==
    IF use_kv_cache /\ i > 0 THEN 2 ELSE input_embeds_len

ContextSize(use_kv_cache, i, input_embeds_len) ==
    IF use_kv_cache /\ i > 0 THEN 1 ELSE input_embeds_len

ContextIndexMutant(use_kv_cache, i, pos) ==
    IF use_kv_cache /\ i > 0 THEN pos - 1 ELSE 0

ContextIndex(use_kv_cache, i, pos) ==
    IF use_kv_cache /\ i > 0 THEN pos ELSE 0

AdvancePosMutant(pos, input_len) == pos + 1

\* index_pos += input_len, line 238
AdvancePos(pos, input_len) == pos + input_len

IsEosMutant(next_token) == FALSE

IsEos(next_token) == next_token = eos_token_id

EmitsMutant(next_token) == TRUE

\* the token reaches tokenizer.next_token only past the break of line 243
Emits(next_token) == ~IsEos(next_token)

\* one iteration of the for loop, lines 228-249
Iterate(m) ==
    /\ pc[m] = "loop"
    /\ index[m] < max_new_tokens
    /\ LET input_embeds_len == Len(embeds[m])
           context_size == ContextSize(m, index[m], input_embeds_len)
           context_index == ContextIndex(m, index[m], index_pos[m])
           input == DropFirst(embeds[m],
                              SaturatingSub(input_embeds_len, context_size))
           view == Attended(m, cache[m], input, context_index)
           next_token == Sample(view, index[m])
       IN  /\ cache' = [cache EXCEPT
                           ![m] = CacheAfter(m, @, input, context_index)]
           /\ index_pos' = [index_pos EXCEPT ![m] = AdvancePos(@, Len(input))]
           /\ embeds' = [embeds EXCEPT ![m] = Append(@, Embed(next_token))]
           /\ out' = [out EXCEPT
                         ![m] = IF Emits(next_token)
                                THEN Append(@, next_token) ELSE @]
           /\ fed' = [fed EXCEPT
                         ![m] = Append(@, [context_size |-> context_size,
                                           context_index |-> context_index,
                                           input |-> input,
                                           len |-> input_embeds_len,
                                           view |-> view])]
           /\ sampled' = [sampled EXCEPT ![m] = Append(@, next_token)]
           /\ IF IsEos(next_token)
              THEN /\ pc' = [pc EXCEPT ![m] = "rest"]
                   /\ UNCHANGED index
              ELSE /\ index' = [index EXCEPT ![m] = @ + 1]
                   /\ UNCHANGED pc
    /\ UNCHANGED <<max_new_tokens, eos_token_id, seed, input_embeds>>
    /\ UNCHANGED <<fuseVars, setupVars>>

\* the range 0..max_new_tokens is used up, line 227
Exhaust(m) ==
    /\ pc[m] = "loop"
    /\ index[m] >= max_new_tokens
    /\ pc' = [pc EXCEPT ![m] = "rest"]
    /\ UNCHANGED <<max_new_tokens, eos_token_id, seed, input_embeds,
                   index, index_pos, embeds, cache, out, fed, sampled>>
    /\ UNCHANGED <<fuseVars, setupVars>>

\* tokenizer.decode_rest and the return, lines 251-255
DecodeRest(m) ==
    /\ pc[m] = "rest"
    /\ pc' = [pc EXCEPT ![m] = "done"]
    /\ UNCHANGED <<max_new_tokens, eos_token_id, seed, input_embeds,
                   index, index_pos, embeds, cache, out, fed, sampled>>
    /\ UNCHANGED <<fuseVars, setupVars>>

\* lines 135-138 and 221-226: the inputs, and both runs before the loop
InitLoop ==
    /\ max_new_tokens \in 0 .. MaxNewTokens
    /\ eos_token_id \in Vocab
    /\ seed \in 0 .. (NumSeeds - 1)
    /\ input_embeds \in UNION {[1 .. n -> 0 .. (NumEmbeds - 1)] :
                                   n \in 1 .. MaxPrefill}
    /\ index = [m \in Modes |-> 0]
    /\ index_pos = [m \in Modes |-> 0]
    /\ embeds = [m \in Modes |-> input_embeds]
    /\ cache = [m \in Modes |-> <<>>]
    /\ out = [m \in Modes |-> <<>>]
    /\ pc = [m \in Modes |-> "loop"]
    /\ fed = [m \in Modes |-> <<>>]
    /\ sampled = [m \in Modes |-> <<>>]
    /\ FuseIdle
    /\ SetupDone

NextLoop ==
    \E m \in Modes : Iterate(m) \/ Exhaust(m) \/ DecodeRest(m)

SpecLoop == InitLoop /\ [][NextLoop]_vars

\* ------------------------------------------------------ model.rs:35-54
\* the subtraction of two usize values that precedes a slice: with
\* overflow checks it panics below zero, without them it wraps and the
\* slice that follows is out of range
UsizeUnderflow == {Panic, Error}

CropMutant(tensor, dim, extent, new_extent, current_width) ==
    IF new_extent > extent THEN UsizeUnderflow
    ELSE LET padding == extent - new_extent
         IN  IF padding > current_width THEN UsizeUnderflow
             ELSE {IndexRange(tensor, dim, padding, current_width - padding)}

\* let padding = (extent - new_extent) / 2;
\* tensor.i(padding..current_width - padding) on axis dim
Crop(tensor, dim, extent, new_extent, current_width) ==
    IF new_extent > extent THEN UsizeUnderflow
    ELSE LET padding == (extent - new_extent) \div 2
         IN  IF padding > current_width THEN UsizeUnderflow
             ELSE {IndexRange(tensor, dim, padding, current_width - padding)}

\* unpad_image: the set of results the builds of the code can give
unpad_image(tensor, original_size) ==
    IF IsErr(tensor) THEN {tensor}
    ELSE IF Len(tensor.dims) # 3 THEN {Panic}
    ELSE LET original_width == original_size[1]
             original_height == original_size[2]
             current_height == tensor.dims[2]
             current_width == tensor.dims[3]
             original_aspect_ratio == F32Div(original_width, original_height)
             current_aspect_ratio == F32Div(current_width, current_height)
         IN  IF F32Gt(original_aspect_ratio, current_aspect_ratio)
             THEN LET scale_factor == F32Div(current_width, original_width)
                      new_height ==
                          F32Floor(F32MulInt(original_height, scale_factor))
                  IN  Crop(tensor, 1, current_height, new_height,
                           current_width)
             ELSE LET scale_factor == F32Div(current_height, original_height)
                      new_width ==
                          F32Floor(F32MulInt(original_width, scale_factor))
                  IN  Crop(tensor, 2, current_width, new_width,
                           current_width)

\* ---------------------------------------------------- model.rs:146-298
\* strings are sequences of characters
StrFlat == <<"f", "l", "a", "t">>
StrSpatial == <<"s", "p", "a", "t", "i", "a", "l">>
StrUnpad == <<"u", "n", "p", "a", "d">>
StrSpatialUnpad == StrSpatial \o <<"_">> \o StrUnpad
StrSpatialPad == StrSpatial \o <<"_", "p", "a", "d">>
MergeTypes == {StrFlat, StrSpatial, StrSpatialUnpad, StrSpatialPad, StrUnpad}

StartsWithMutant(str, prefix) == str = prefix

\* str::starts_with
StartsWith(str, prefix) ==
    Len(str) >= Len(prefix) /\ SubSeq(str, 1, Len(prefix)) = prefix

\* str::contains
Contains(str, pat) ==
    \E i \in 0 .. (Len(str) - Len(pat)) : SubSeq(str, i + 1, i + Len(pat)) = pat

\* ClipVisionTower::num_patches_per_side
num_patches_per_side == vision_config.image_size \div vision_config.patch_size

\* the embedding the encoder and the projector give for token p of tile t
\* is named by <<t, p>> (p = -1 for the class token), one element per
\* hidden channel ch
Feature(t, p, ch) == <<t, p, ch>>

\* self.image_newline, shape (hidden_size)
image_newline == Tensor(<<HiddenSize>>, [ch \in 1 .. HiddenSize |-> <<-1, -1, ch - 1>>])
IsNewline(e) == e[1] = -1

\* the element of channel ch of the hidden state of token p of tile t
\* after layer l (p = -1 for the class token, which is first in the
\* sequence)
Hidden(l, t, p, ch) == <<l, t, p, ch>>

\* final_layer_norm: the normalized element is one layer further on
LayerNorm(e) == Hidden(e[1] + 1, e[2], e[3], e[4])

\* ClipVisionTransformerWithHiddenStates::output_hidden_states: the output
\* of every encoder layer, then the normalized pooled output
output_hidden_states(tiles) ==
    LET nd == <<tiles, num_patches_per_side * num_patches_per_side + 1,
                EmbedDim>>
        result == [l \in 1 .. NumLayers |->
                      Tensor(nd, [i \in 1 .. Prod(nd) |->
                          LET ni == Unravel(i - 1, nd)
                          IN  Hidden(l, ni[1], ni[2] - 1, ni[3])])]
        encoder_outputs == result[Len(result)]
        pooled_output == Get(Permute(encoder_outputs, <<1, 0, 2>>), 0)
    IN  Append(result,
               Tensor(pooled_output.dims,
                      [i \in 1 .. Prod(pooled_output.dims) |->
                          LayerNorm(pooled_output.data[i])]))

SelectIndexMutant(len) == len - 1

\* let index = result.len() as isize + self.select_layer
SelectIndex(len) == len + mm_vision_select_layer

\* ClipVisionTower::forward
TowerForward(tiles) ==
    LET result == output_hidden_states(tiles)
        select_index == SelectIndex(Len(result))
        selected == result[select_index + 1]
    IN  IF select_feature_method = "cls_patch" THEN selected
        ELSE IndexRange(selected, 1, 1, selected.dims[2])

\* MMProjector::forward: linear layers from mm_hidden_size (the tower's
\* embed_dim) to hidden_size on the last axis; the embedding they give
\* for a token is named by its tile and its place, one element per
\* hidden channel
MMProjectorForward(x) ==
    IF IsErr(x) THEN x
    ELSE IF x.dims[Len(x.dims)] # EmbedDim THEN Error
    ELSE LET nd == Front(x.dims) \o <<HiddenSize>>
         IN  Tensor(nd, [i \in 1 .. Prod(nd) |->
                 LET ni == Unravel(i - 1, nd)
                     e == At(x, Front(ni) \o <<0>>)
                 IN  Feature(e[2], e[3], ni[Len(nd)])])

\* LLaVA::encode_images on the concatenated tiles
encode_images(tiles) == MMProjectorForward(TowerForward(tiles))

\* lines 207-216: the local index_pos is set to 0 and never advanced, so
\* every image is sliced from tile 0
SplitFeatures(image_features_together, split_sizes) ==
    LET split_index_pos == 0
    IN  [j \in 1 .. Len(split_sizes) |->
            IndexRange(image_features_together, 0,
                       split_index_pos, split_index_pos + split_sizes[j])]

AppendNewlineMutant(new_image_feature) == new_image_feature

\* lines 265-271: image_newline as one more column of every row
AppendNewline(new_image_feature) ==
    IF IsErr(new_image_feature) THEN new_image_feature
    ELSE LET image_new_line ==
                 BroadcastAs(Reshape(image_newline, <<HiddenSize, 1, 1>>),
                             <<new_image_feature.dims[1],
                               new_image_feature.dims[2], 1>>)
         IN  Cat(new_image_feature, image_new_line, 2)

WithBaseMutant(base_image_feature, new_image_feature) == new_image_feature

\* line 276
WithBase(base_image_feature, new_image_feature) ==
    Cat(base_image_feature, new_image_feature, 0)

ToGridMutant(new_image_feature) ==
    Flatten(Flatten(Permute(new_image_feature, <<4, 1, 2, 0, 3>>), 1, 2), 2, 3)

\* lines 258-262: the tiles (num_patch_height, num_patch_width, height,
\* width, hidden) as one grid (hidden, rows, columns)
ToGrid(new_image_feature) ==
    Flatten(Flatten(Permute(new_image_feature, <<4, 0, 2, 1, 3>>), 1, 2), 2, 3)

SingleTileMutant(new_image_feature) ==
    Unwrap(Cat(new_image_feature, Unsqueeze0(image_newline), 0))

\* lines 279-290: the one tile of an image that has no grid
SingleTile(new_image_feature) ==
    IF Contains(mm_patch_merge_type, StrUnpad)
    THEN Unwrap(Cat(new_image_feature, Unsqueeze0(image_newline), 0))
    ELSE new_image_feature

\* lines 232-292 for one image: the set of [feature, unpad] the builds of
\* the code can give, feature the merged block or a failure and unpad the
\* shape unpad_image returned (<<>> when it was not called or failed)
Result(feature, unpad) == [feature |-> feature, unpad |-> unpad]

MergeOne(image_feature, image_size) ==
    IF IsErr(image_feature) THEN {Result(image_feature, <<>>)}
    ELSE IF image_feature.dims[1] > 1
    THEN LET base_image_feature == Unwrap(Get(image_feature, 0))
             patch_image_feature ==
                 Unwrap(IndexRange(image_feature, 0, 1, image_feature.dims[1]))
             height == num_patches_per_side
             width == height
         IN  IF height * width # base_image_feature.dims[1]
             THEN {Result(Panic, <<>>)}
             ELSE IF image_aspect_ratio # "anyres"
             THEN {Result(Panic, <<>>)}
             ELSE LET num_patch_width == grid_shape[1]
                      num_patch_height == grid_shape[2]
                      new_image_feature ==
                          ReshapeHole(patch_image_feature,
                                      <<num_patch_height, num_patch_width,
                                        height, width>>)
                  IN  IF Contains(mm_patch_merge_type, StrUnpad)
                      THEN {Result(
                                WithBase(base_image_feature,
                                    Permute(Flatten(AppendNewline(u), 1, 2),
                                            <<1, 0>>)),
                                IF IsErr(u) THEN <<>> ELSE u.dims) :
                              u \in unpad_image(ToGrid(new_image_feature),
                                                image_size)}
                      ELSE {Result(
                                WithBase(base_image_feature,
                                    Flatten(Permute(new_image_feature,
                                                    <<0, 2, 1, 3, 4>>), 0, 3)),
                                <<>>)}
    ELSE {Result(SingleTile(Unwrap(Get(image_feature, 0))), <<>>)}

\* lines 230-295: the images merged in their order, up to the first that
\* fails; the set of the sequences of results
RECURSIVE MergeFrom(_, _)
MergeFrom(split, j) ==
    IF j > Len(split) THEN {<<>>}
    ELSE UNION {IF IsErr(r.feature) THEN {<<r>>}
                ELSE {<<r>> \o rest : rest \in MergeFrom(split, j + 1)} :
                r \in MergeOne(split[j], image_sizes[j])}

\* lines 205-298: the set of the sequences of results, one result per
\* image, the last one the failure if the call fails
MergeOutcomes ==
    LET concat_images_tiles == SumSeq(images)
        image_features_together == encode_images(concat_images_tiles)
        split == SplitFeatures(image_features_together, images)
    IN  IF \E j \in 1 .. Len(split) : IsErr(split[j])
        THEN {<<Result(Error, <<>>)>>}
        ELSE IF mm_patch_merge_type = StrFlat
        THEN {[j \in 1 .. Len(split) |->
                  Result(Unwrap(Flatten(split[j], 0, 1)), <<>>)]}
        ELSE IF StartsWith(mm_patch_merge_type, StrSpatial)
        THEN MergeFrom(split, 1)
        ELSE {<<Result(Bail("Unexpected mm_patch_merge_type: {}",
                            <<mm_patch_merge_type>>), <<>>)>>}

\* the message of a failed merge: the one of bail!, or the one of the
\* tensor library
ErrMessage(failure) ==
    IF "text" \in DOMAIN failure THEN Message(failure.text, failure.value)
    ELSE IF failure.err = "error" THEN Message("candle", <<>>)
    ELSE NoMessage

\* lines 205-303: encode, split and merge
Merge ==
    /\ spc = "loaded"
    /\ fpc = "start"
    /\ forward_calls' = forward_calls + 1
    /\ hidden_shapes' =
          LET result == output_hidden_states(SumSeq(images))
          IN  [l \in 1 .. Len(result) |-> result[l].dims]
    /\ tower_output' = TowerForward(SumSeq(images))
    /\ \E results \in MergeOutcomes :
          LET last == results[Len(results)].feature
          IN  IF IsErr(last)
              THEN /\ fpc' = "returned"
                   /\ outcome' = last.err
                   /\ message' = ErrMessage(last)
                   /\ UNCHANGED <<image_features, unpad_shape, return_value>>
              ELSE /\ fpc' = "merged"
                   /\ image_features' =
                         [j \in 1 .. Len(results) |-> results[j].feature]
                   /\ unpad_shape' = results[1].unpad
                   /\ UNCHANGED <<outcome, return_value, message>>
    /\ UNCHANGED <<mm_patch_merge_type, image_aspect_ratio,
                   select_feature_method, vision_config, images, image_sizes,
                   grid_shape, input_ids, tokenizer_model_max_length>>
    /\ UNCHANGED <<setupConfig, spc, model_constructed>>
    /\ UNCHANGED loopVars

\* line 304: todo!() unwinds and nothing is returned; the splice of
\* lines 305-384 is inside a comment
Splice ==
    /\ fpc = "merged"
    /\ fpc' = "returned"
    /\ outcome' = "panic"
    /\ return_value' = <<>>
    /\ UNCHANGED <<mm_patch_merge_type, image_aspect_ratio,
                   select_feature_method, vision_config, images, image_sizes,
                   grid_shape, input_ids, tokenizer_model_max_length,
                   image_features, unpad_shape>>
    /\ UNCHANGED setupVars
    /\ UNCHANGED loopVars

\* reserved token id of the image placeholder (constants.rs)
IMAGE_TOKEN_INDEX == -200

\* a prompt with one placeholder, no tokenizer_model_max_length
PlainCall == <<<<1, IMAGE_TOKEN_INDEX, 2, 3>>, <<>>>>

\* the prompts and tokenizer_model_max_length values of the calls: one
\* placeholder with and without a maximum length, none, and two
Calls ==
    { <<<<1, IMAGE_TOKEN_INDEX, 2, 3>>, <<MaxLength>>>>,
      PlainCall,
      <<<<1, 2>>, <<>>>>,
      <<<<IMAGE_TOKEN_INDEX, 1, IMAGE_TOKEN_INDEX>>, <<>>>> }

\* SpecFuse leaves the generation loop alone: it has not started
LoopIdle ==
    /\ max_new_tokens = 0
    /\ eos_token_id = 0
    /\ seed = 0
    /\ input_embeds = <<>>
    /\ index = [m \in Modes |-> 0]
    /\ index_pos = [m \in Modes |-> 0]
    /\ embeds = [m \in Modes |-> <<>>]
    /\ cache = [m \in Modes |-> <<>>]
    /\ out = [m \in Modes |-> <<>>]
    /\ pc = [m \in Modes |-> "idle"]
    /\ fed = [m \in Modes |-> <<>>]
    /\ sampled = [m \in Modes |-> <<>>]

\* image_sizes and the grid shape get_anyres_image_grid_shape returns
\* matter to the spatial merges of patch features under "anyres"; the
\* other calls are enumerated with one size and one grid shape. The
\* merge does not read the prompt: the calls whose geometry varies are
\* enumerated with one prompt
VariesGeometry ==
    /\ StartsWith(mm_patch_merge_type, StrSpatial)
    /\ select_feature_method = "patch"
    /\ image_aspect_ratio = "anyres"

\* the vision tower of ClipVisionTower::load: image_size and patch_size
\* of clip_vit_large_patch14_336
ClipLarge336 == [image_size |-> 336, patch_size |-> 14]

\* an image twice as wide as high, the (width, height) load_image returns
WideImage == <<672, 336>>

\* the calls with towers, tile counts, grids and images up to the bounds
BoundedCall ==
    /\ mm_patch_merge_type \in MergeTypes
    /\ image_aspect_ratio \in {"anyres", "pad"}
    /\ select_feature_method \in {"patch", "cls_patch"}
    /\ vision_config \in {[image_size |-> n * PatchPixels,
                           patch_size |-> PatchPixels] : n \in 1 .. MaxSide}
    /\ images \in {<<n>> : n \in 1 .. MaxTiles}
    /\ IF VariesGeometry
       THEN /\ image_sizes \in {<<<<w, h>>>> : w \in 1 .. MaxPixels,
                                               h \in 1 .. MaxPixels}
            /\ grid_shape \in (1 .. MaxGrid) \X (1 .. MaxGrid)
       ELSE /\ image_sizes = <<<<1, 1>>>>
            /\ grid_shape = <<1, 1>>

\* the call with the tower the code loads: the wide image on a grid of
\* two by two tiles, a base tile and four grid tiles
WideCall ==
    /\ mm_patch_merge_type = StrSpatialUnpad
    /\ image_aspect_ratio = "anyres"
    /\ select_feature_method = "patch"
    /\ vision_config = ClipLarge336
    /\ images = <<5>>
    /\ image_sizes = <<WideImage>>
    /\ grid_shape = <<2, 2>>

\* the configuration and the arguments of the call of main.rs:221-222
InitFuse ==
    /\ BoundedCall \/ WideCall
    /\ \E call \in (IF VariesGeometry THEN {PlainCall} ELSE Calls) :
          /\ input_ids = call[1]
          /\ tokenizer_model_max_length = call[2]
    /\ image_features = <<>>
    /\ unpad_shape = <<>>
    /\ fpc = "start"
    /\ outcome = "none"
    /\ return_value = <<>>
    /\ SetupDone
    /\ LoopIdle

NextFuse == Merge \/ Splice

SpecFuse == InitFuse /\ [][NextFuse]_vars

\* ---------------------------------------------- model.rs:197-385
\* prepare_inputs_labels_for_multimodal called with several images of the
\* same size, each of up to MaxGrid tiles: as one tile, or as a base tile
\* and a grid of one tile
InitMulti ==
    /\ mm_patch_merge_type \in {StrFlat, StrSpatial, StrSpatialUnpad}
    /\ image_aspect_ratio = "anyres"
    /\ select_feature_method \in {"patch", "cls_patch"}
    /\ vision_config \in {[image_size |-> n * PatchPixels,
                           patch_size |-> PatchPixels] : n \in 1 .. MaxSide}
    /\ images \in UNION {[1 .. n -> 1 .. MaxGrid] : n \in 1 .. MaxImages}
    /\ image_sizes = [j \in 1 .. Len(images) |-> <<1, 1>>]
    /\ grid_shape = <<1, 1>>
    /\ input_ids = PlainCall[1]
    /\ tokenizer_model_max_length = PlainCall[2]
    /\ image_features = <<>>
    /\ unpad_shape = <<>>
    /\ fpc = "start"
    /\ outcome = "none"
    /\ return_value = <<>>
    /\ SetupDone
    /\ LoopIdle

SpecMulti == InitMulti /\ [][NextFuse]_vars

\* ------------------------------------------------- main.rs:128-222
\* the torch_dtype, mm_vision_tower and mm_vision_select_layer values of
\* the configurations: the ones the code knows and some it does not
DTypes == {"float16", "bfloat16", "float32"}
Towers == {ClipVitLarge336, "openai/clip-vit-base-patch32"}
SelectLayers == -3 .. 0

\* main from the match on torch_dtype to the call of
\* prepare_inputs_labels_for_multimodal, for images of up to MaxSide
\* tiles without a grid
InitSetup ==
    /\ torch_dtype \in DTypes
    /\ mm_vision_tower \in Towers
    /\ mm_vision_select_layer \in SelectLayers
    /\ spc = "dtype"
    /\ message = NoMessage
    /\ model_constructed = FALSE
    /\ forward_calls = 0
    /\ hidden_shapes = <<>>
    /\ tower_output = <<>>
    /\ mm_patch_merge_type \in MergeTypes
    /\ image_aspect_ratio = "anyres"
    /\ select_feature_method \in {"patch", "cls_patch"}
    /\ vision_config \in {[image_size |-> n * PatchPixels,
                           patch_size |-> PatchPixels] : n \in 1 .. MaxSide}
    /\ images \in {<<n>> : n \in 1 .. MaxSide}
    /\ image_sizes = <<<<1, 1>>>>
    /\ grid_shape = <<1, 1>>
    /\ input_ids = PlainCall[1]
    /\ tokenizer_model_max_length = PlainCall[2]
    /\ image_features = <<>>
    /\ unpad_shape = <<>>
    /\ fpc = "start"
    /\ outcome = "none"
    /\ return_value = <<>>
    /\ LoopIdle

NextSetup == ParseDtype \/ LoadTower \/ Merge \/ Splice

SpecSetup == InitSetup /\ [][NextSetup]_vars

\* ------------------------------------------------ properties of the loop
Steps(m) == Len(sampled[m])
PrefillLen == Len(input_embeds)
Range(s) == {s[j] : j \in 1 .. Len(s)}
Iota(n) == [j \in 1 .. n |-> j - 1]
CachePositions(m) == [j \in 1 .. Len(cache[m]) |-> cache[m][j][1]]
SampledEos(m) == Steps(m) > 0 /\ sampled[m][Steps(m)] = eos_token_id

\* C1: the loop runs exactly min(max_new_tokens, k) steps, k the first step
\* that samples end-of-sequence: never more than max_new_tokens steps, no
\* step after the one that samples end-of-sequence, and a loop that has
\* ended either sampled end-of-sequence in its last step or used its budget.
C1_Termination ==
    \A m \in Modes :
        /\ Steps(m) <= max_new_tokens
        /\ Steps(m) = (IF pc[m] = "loop" THEN index[m]
                       ELSE IF SampledEos(m) THEN index[m] + 1 ELSE index[m])
        /\ \A j \in 1 .. Steps(m) - 1 : sampled[m][j] # eos_token_id
        /\ pc[m] = "loop" => ~SampledEos(m)
        /\ pc[m] # "loop" => (SampledEos(m) \/ Steps(m) = max_new_tokens)

C1_Witness ==
    /\ pc[TRUE] = "done"
    /\ SampledEos(TRUE)
    /\ Steps(TRUE) = 2
    /\ max_new_tokens > 2

\* C2: at every step the cached run and the uncached run attend the same
\* set of (position, embedding) pairs, namely the whole running sequence
\* from position 0, so they sample the same tokens and stop at the same step.
C2_CacheEquivalence ==
    /\ \A j \in 1 .. Min(Steps(TRUE), Steps(FALSE)) :
          /\ Range(fed[TRUE][j].view) = Range(fed[FALSE][j].view)
          /\ Range(fed[TRUE][j].view)
               = {<<p - 1, embeds[TRUE][p]>> : p \in 1 .. fed[TRUE][j].len}
          /\ sampled[TRUE][j] = sampled[FALSE][j]
    /\ (pc[TRUE] # "loop" /\ pc[FALSE] # "loop")
          => /\ Steps(TRUE) = Steps(FALSE)
             /\ out[TRUE] = out[FALSE]
             /\ embeds[TRUE] = embeds[FALSE]

C2_Witness ==
    /\ pc[TRUE] = "done"
    /\ pc[FALSE] = "done"
    /\ Steps(TRUE) >= 3
    /\ Len(cache[TRUE]) > Len(input_embeds) + 1
    /\ cache[FALSE] = <<>>

\* C3: with the cache enabled, at the start of step i >= 1 the cache holds
\* exactly the positions 0 .. P + i - 2 and index_pos = P + i - 1; over the
\* whole run the positions submitted are 0, 1, 2, ... each once, in order.
C3_CachePositions ==
    /\ CachePositions(TRUE) = Iota(Len(cache[TRUE]))
    /\ index_pos[TRUE] = Len(cache[TRUE])
    /\ (pc[TRUE] = "loop" /\ index[TRUE] >= 1)
          => /\ index_pos[TRUE] = PrefillLen + index[TRUE] - 1
             /\ Range(CachePositions(TRUE))
                  = 0 .. (PrefillLen + index[TRUE] - 2)
    /\ \A j \in 1 .. Len(fed[TRUE]) :
          /\ fed[TRUE][j].context_index
               = SumSeq([i \in 1 .. j - 1 |-> Len(fed[TRUE][i].input)])
          /\ Len(fed[TRUE][j].input) >= 1

C3_Witness ==
    /\ pc[TRUE] = "loop"
    /\ index[TRUE] = 2
    /\ PrefillLen = 2
    /\ CachePositions(TRUE) = <<0, 1, 2>>

\* C4: with the cache enabled, step 0 feeds the whole fused sequence at
\* offset 0 and every later step feeds the one last embedding of the
\* running sequence, the embedding of the token sampled just before, at
\* offset = embeddings processed so far = running length - 1.
C4_StepInput ==
    \A j \in 1 .. Len(fed[TRUE]) :
        IF j = 1
        THEN /\ fed[TRUE][j].input = input_embeds
             /\ fed[TRUE][j].context_index = 0
        ELSE /\ fed[TRUE][j].input = <<embeds[TRUE][fed[TRUE][j].len]>>
             /\ fed[TRUE][j].input = <<Embed(sampled[TRUE][j - 1])>>
             /\ fed[TRUE][j].context_index = fed[TRUE][j].len - 1
             /\ fed[TRUE][j].context_index
                  = SumSeq([i \in 1 .. j - 1 |-> Len(fed[TRUE][i].input)])

C4_Witness ==
    /\ Len(fed[TRUE]) = 3
    /\ PrefillLen = 2
    /\ fed[TRUE][3].context_index = 3
    /\ Len(fed[TRUE][3].input) = 1

\* C5 as stated: every step appends one embedding and emits its token id,
\* so the number of ids emitted equals the number of steps executed.
C5_Original ==
    \A m \in Modes :
        /\ Len(embeds[m]) = PrefillLen + Steps(m)
        /\ Len(out[m]) = Steps(m)

\* C5 amended: every step appends the embedding of its sampled token; the
\* id is emitted unless it is end-of-sequence, so the ids emitted are the
\* sampled ids without a final end-of-sequence (one fewer than the steps
\* when the last step sampled end-of-sequence).
C5_Emitted ==
    \A m \in Modes :
        /\ Len(embeds[m]) = PrefillLen + Steps(m)
        /\ \A j \in 1 .. Steps(m) :
              embeds[m][PrefillLen + j] = Embed(sampled[m][j])
        /\ out[m] = (IF SampledEos(m)
                     THEN SubSeq(sampled[m], 1, Steps(m) - 1)
                     ELSE sampled[m])

C5_Witness ==
    /\ pc[FALSE] = "done"
    /\ SampledEos(FALSE)
    /\ Len(out[FALSE]) = Steps(FALSE) - 1
    /\ Len(out[FALSE]) >= 1

\* ---------------------------------------------- properties of the fusion
Placeholders == Cardinality({j \in 1 .. Len(input_ids) : input_ids[j] = IMAGE_TOKEN_INDEX})
FirstPlaceholder == CHOOSE j \in 1 .. Len(input_ids) : input_ids[j] = IMAGE_TOKEN_INDEX
HasBlock == image_features # <<>>
Block == image_features[1]
BlockTokens == Block.dims[1]
\* the embedding-table rows of a run of text tokens, shape (tokens, hidden)
TextEmbeds(ids) ==
    Tensor(<<Len(ids), HiddenSize>>,
           [i \in 1 .. Len(ids) * HiddenSize |->
               <<-2, ids[((i - 1) \div HiddenSize) + 1], (i - 1) % HiddenSize>>])
\* text before the placeholder, the block, text after the placeholder
FusedAsClaimed ==
    Cat(Cat(TextEmbeds(SubSeq(input_ids, 1, FirstPlaceholder - 1)), Block, 0),
        TextEmbeds(SubSeq(input_ids, FirstPlaceholder + 1, Len(input_ids))), 0)
SpatialNoUnpad ==
    StartsWith(mm_patch_merge_type, StrSpatial) /\ ~Contains(mm_patch_merge_type, StrUnpad)
SpatialUnpad ==
    StartsWith(mm_patch_merge_type, StrSpatial) /\ Contains(mm_patch_merge_type, StrUnpad)
TileTokens == num_patches_per_side * num_patches_per_side
GridTokens == grid_shape[1] * grid_shape[2] * TileTokens
\* token j (from 1) of a block, named by its channel-0 element
TokenAt(block, j) == block.data[(j - 1) * HiddenSize + 1]

\* C6: with one placeholder and one block of K tokens the call returns
\* Ok with shape (1, n - 1 + K, hidden): text before, block, text after.
C6_Claim ==
    (fpc = "returned" /\ HasBlock /\ Placeholders = 1)
        => /\ outcome = "ok"
           /\ return_value = Unsqueeze0(FusedAsClaimed)
           /\ return_value.dims = <<1, Len(input_ids) - 1 + BlockTokens, HiddenSize>>

\* C7: with tokenizer_model_max_length set below the fused length the
\* call returns the first max_length embeddings of the fused sequence,
\* otherwise the whole fused sequence.
C7_Claim ==
    (fpc = "returned" /\ HasBlock /\ Placeholders = 1)
        => /\ outcome = "ok"
           /\ return_value =
                IF /\ tokenizer_model_max_length # <<>>
                   /\ tokenizer_model_max_length[1] < FusedAsClaimed.dims[1]
                THEN Unsqueeze0(Narrow(FusedAsClaimed, 0, 0,
                                       tokenizer_model_max_length[1]))
                ELSE Unsqueeze0(FusedAsClaimed)

\* C8: with no placeholder or with two or more for the one block, the
\* call returns an error to the caller; it neither panics nor returns Ok.
C8_Claim ==
    (fpc = "returned" /\ HasBlock /\ Placeholders # 1) => outcome = "error"

\* C9 as stated: spatial without unpad, more than one tile: the block has
\* num_patch_height * num_patch_width * tile_side_patches^2 + 1 tokens.
C9_Original ==
    (HasBlock /\ SpatialNoUnpad /\ images[1] > 1)
        => BlockTokens = GridTokens + 1

\* C9 amended: the block has num_patch_height * num_patch_width *
\* tile_side_patches^2 + tile_side_patches^2 tokens: the base feature is a
\* whole tile of tile_side_patches^2 tokens and comes first, then every
\* patch of every grid tile once.
C9_SpatialCount ==
    (HasBlock /\ SpatialNoUnpad /\ images[1] > 1)
        => /\ BlockTokens = GridTokens + TileTokens
           /\ images[1] - 1 = grid_shape[1] * grid_shape[2]
           /\ \A j \in 1 .. TileTokens : TokenAt(Block, j) = Feature(0, j - 1, 0)
           /\ {TokenAt(Block, j) : j \in TileTokens + 1 .. BlockTokens}
                = {Feature(t, q, 0) : t \in 1 .. images[1] - 1,
                                      q \in 0 .. TileTokens - 1}

C9_Witness ==
    /\ HasBlock
    /\ mm_patch_merge_type = StrSpatial
    /\ grid_shape = <<2, 2>>
    /\ num_patches_per_side = 2
    /\ BlockTokens = 20

UnpadRows == unpad_shape[2]
UnpadCols == unpad_shape[3]
FullRows == grid_shape[2] * num_patches_per_side
FullCols == grid_shape[1] * num_patches_per_side
RemovedPatches == FullRows * FullCols - UnpadRows * UnpadCols

\* C10 as stated: spatial_unpad, more than one tile: the block has the
\* spatial count minus the patches removed plus num_patch_height separators
\* (stated here for the square patch grids, where the slice bounds of
\* unpad_image are the intended ones whichever axis it crops).
C10_Original ==
    (HasBlock /\ SpatialUnpad /\ images[1] > 1 /\ FullRows = FullCols)
        => BlockTokens = GridTokens + TileTokens - RemovedPatches + grid_shape[2]

\* C10 amended: the block has the spatial count (C9 amended) minus the
\* patches unpad_image removed plus one separator per row of the grid
\* unpad_image returned, each row of the block ending in its separator.
C10_UnpadCount ==
    (HasBlock /\ SpatialUnpad /\ images[1] > 1)
        => /\ UnpadRows <= FullRows
           /\ UnpadCols <= FullCols
           /\ BlockTokens = GridTokens + TileTokens - RemovedPatches + UnpadRows
           /\ Cardinality({j \in 1 .. BlockTokens : IsNewline(TokenAt(Block, j))})
                = UnpadRows
           /\ \A r \in 1 .. UnpadRows :
                 IsNewline(TokenAt(Block, TileTokens + r * (UnpadCols + 1)))

C10_Witness ==
    /\ HasBlock
    /\ mm_patch_merge_type = StrSpatialUnpad
    /\ grid_shape = <<2, 2>>
    /\ num_patches_per_side = 2
    /\ unpad_shape = <<HiddenSize, 4, 2>>
    /\ BlockTokens = 4 + 4 * 3

\* the element of channel 0 of the patch at row gr and column gc of the
\* grid of tiles laid out row by row (tile 0 is the base tile)
GridPatch(gr, gc) ==
    Feature(1 + (gr \div num_patches_per_side) * grid_shape[1]
              + (gc \div num_patches_per_side),
            (gr % num_patches_per_side) * num_patches_per_side
              + (gc % num_patches_per_side),
            0)

\* the token of the block at row i and column j of the unpadded grid,
\* column UnpadCols the separator that follows the row
RowToken(i, j) == TokenAt(Block, TileTokens + i * (UnpadCols + 1) + j + 1)

WideCase ==
    /\ mm_patch_merge_type = StrSpatialUnpad
    /\ vision_config = ClipLarge336
    /\ image_sizes = <<WideImage>>
    /\ grid_shape = <<2, 2>>

\* C11 as stated: for the wide image on the grid of 48 by 48 patches,
\* unpadding removes columns and keeps all 48 rows, and every output row
\* ends with one separator
C11_Original ==
    (WideCase /\ HasBlock) =>
        /\ UnpadRows = FullRows
        /\ UnpadCols < FullCols
        /\ \A i \in 0 .. UnpadRows - 1 : IsNewline(RowToken(i, UnpadCols))

\* C11 amended: for the wide image on the grid of 48 by 48 patches the
\* call gives a block; unpadding removes rows: it keeps the middle half of
\* the rows (rows 12 to 35) with all 48 columns of each, and every one of
\* the 24 output rows is its 48 patches followed by one separator
C11_WideImageRows ==
    (WideCase /\ fpc # "start") =>
        /\ HasBlock
        /\ UnpadRows = FullRows \div 2
        /\ UnpadCols = FullCols
        /\ BlockTokens = TileTokens + UnpadRows * (UnpadCols + 1)
        /\ \A i \in 0 .. UnpadRows - 1 :
              /\ IsNewline(RowToken(i, UnpadCols))
              /\ \A j \in 0 .. UnpadCols - 1 :
                    RowToken(i, j) = GridPatch(i + FullRows \div 4, j)

C11_Witness ==
    /\ WideCase
    /\ HasBlock
    /\ unpad_shape = <<HiddenSize, 24, 48>>

\* unpad_image is reached: the tiles after the base tile fill the grid
UnpadCalled ==
    /\ StartsWith(mm_patch_merge_type, StrSpatial)
    /\ select_feature_method = "patch"
    /\ image_aspect_ratio = "anyres"
    /\ Contains(mm_patch_merge_type, StrUnpad)
    /\ images[1] - 1 = grid_shape[1] * grid_shape[2]

\* the image is wider than the grid: the padding is above and below
PaddedRows ==
    F32Gt(F32Div(image_sizes[1][1], image_sizes[1][2]),
          F32Div(FullCols, FullRows))

\* the extent of the padded axis that the image scaled to the grid fills
ScaledRows ==
    F32Floor(F32MulInt(image_sizes[1][2], F32Div(FullCols, image_sizes[1][1])))
ScaledCols ==
    F32Floor(F32MulInt(image_sizes[1][1], F32Div(FullRows, image_sizes[1][2])))

\* the first row and column to keep: half of what the image leaves unfilled
RowPadding == IF PaddedRows THEN (FullRows - ScaledRows) \div 2 ELSE 0
ColPadding == IF PaddedRows THEN 0 ELSE (FullCols - ScaledCols) \div 2

\* C12 as stated: on every grid, square or not, and for every image size,
\* unpad_image succeeds and keeps [padding, extent - padding) of the
\* padded axis, extent being the length of that axis, and all of the
\* other axis
C12_Claim ==
    (UnpadCalled /\ fpc # "start") =>
        /\ HasBlock
        /\ UnpadRows = FullRows - 2 * RowPadding
        /\ UnpadCols = FullCols - 2 * ColPadding
        /\ \A i \in 0 .. UnpadRows - 1 : \A j \in 0 .. UnpadCols - 1 :
              RowToken(i, j) = GridPatch(i + RowPadding, j + ColPadding)

\* the tokens per tile that encode_images gives
EncodedTokens ==
    TileTokens + (IF select_feature_method = "cls_patch" THEN 1 ELSE 0)

\* C13: an image of one tile under a spatial merge gives a block whatever
\* the grid shape, the image size and image_aspect_ratio are, and
\* unpad_image is not called; the block is the tokens of the tile in
\* their order, followed under spatial_unpad by exactly one separator and
\* by nothing otherwise
C13_SingleTile ==
    (StartsWith(mm_patch_merge_type, StrSpatial) /\ images[1] = 1
        /\ fpc # "start") =>
        /\ HasBlock
        /\ unpad_shape = <<>>
        /\ \A j \in 1 .. EncodedTokens :
              TokenAt(Block, j) = Feature(0, j - 1 - (EncodedTokens - TileTokens), 0)
        /\ IF mm_patch_merge_type = StrSpatialUnpad
           THEN /\ BlockTokens = EncodedTokens + 1
                /\ IsNewline(TokenAt(Block, BlockTokens))
           ELSE mm_patch_merge_type = StrSpatial =>
                    BlockTokens = EncodedTokens

C13_Witness ==
    /\ mm_patch_merge_type = StrSpatialUnpad
    /\ images[1] = 1
    /\ grid_shape = <<MaxGrid, 1>>
    /\ image_sizes = <<<<1, MaxPixels>>>>
    /\ HasBlock
    /\ BlockTokens = EncodedTokens + 1
    /\ IsNewline(TokenAt(Block, BlockTokens))

\* the merge type has the seven characters of "spatial" in front
BeginsSpatial ==
    /\ Len(mm_patch_merge_type) >= Len(StrSpatial)
    /\ \A j \in 1 .. Len(StrSpatial) : mm_patch_merge_type[j] = StrSpatial[j]

\* C14 as stated: every merge type other than flat, spatial and
\* spatial_unpad ends the call with an error and without a block
C14_Original ==
    (fpc # "start"
        /\ mm_patch_merge_type \notin {StrFlat, StrSpatial, StrSpatialUnpad}) =>
        /\ outcome = "error"
        /\ ~HasBlock

\* C14 amended: a merge type is accepted when it is flat or begins with
\* "spatial": the image of one tile then gets its block, under
\* spatial_pad the block of spatial; every other merge type ends the call
\* with an error and without a block
C14_AcceptedByPrefix ==
    fpc # "start" =>
        IF mm_patch_merge_type = StrFlat \/ BeginsSpatial
        THEN /\ images[1] = 1 => HasBlock
             /\ (HasBlock /\ images[1] = 1 /\ mm_patch_merge_type = StrSpatialPad)
                    => BlockTokens = EncodedTokens
        ELSE /\ fpc = "returned"
             /\ outcome = "error"
             /\ ~HasBlock

C14_Witness ==
    /\ mm_patch_merge_type = StrSpatialPad
    /\ HasBlock
    /\ BlockTokens = EncodedTokens

\* ----------------------------------------------- properties of the setup
\* the configuration values the code does not support
DtypeUnsupported == torch_dtype \notin {"float16", "bfloat16"}
SelectLayerUnsupported == mm_vision_select_layer \notin {-1, -2}
MergeTypeUnsupported == mm_patch_merge_type # StrFlat /\ ~BeginsSpatial

\* the run ended in the setup, before the tower ran, with a message that
\* carries value
EndedInSetup(value) ==
    /\ spc = "failed"
    /\ forward_calls = 0
    /\ message.value = <<value>>

\* C15 as stated: an unsupported torch_dtype, select layer or merge type
\* ends the run before the vision encoder has run, with a message that
\* carries the unsupported value
C15_Claim ==
    /\ (DtypeUnsupported /\ spc # "dtype") => EndedInSetup(torch_dtype)
    /\ (~DtypeUnsupported /\ mm_vision_tower = ClipVitLarge336
            /\ SelectLayerUnsupported /\ spc \notin {"dtype", "load"}) =>
           EndedInSetup(mm_vision_select_layer)
    /\ (MergeTypeUnsupported /\ fpc # "start") =>
           /\ fpc = "returned"
           /\ outcome = "error"
           /\ forward_calls = 0
           /\ message.value = <<mm_patch_merge_type>>

\* the element of the list of hidden states that the claimed rule picks
ClaimedElement ==
    LET result == output_hidden_states(SumSeq(images))
    IN  IF mm_vision_select_layer = -1 THEN result[Len(result)]
        ELSE result[Len(result) - 1]

\* C16: when the tower has run, the select layer is -1 or -2, its model
\* was constructed, and what forward returns is taken from the last
\* element of the list of hidden states for -1 and from the one before it
\* for -2 (the element itself when the class token is kept); any other
\* select layer ends the run in ClipVisionTower::load with an error,
\* the model not constructed and the tower never run
C16_SelectLayer ==
    /\ forward_calls > 0 =>
          /\ mm_vision_select_layer \in {-1, -2}
          /\ model_constructed
          /\ IF select_feature_method = "cls_patch"
             THEN tower_output = ClaimedElement
             ELSE \A i \in 1 .. Prod(tower_output.dims) :
                     tower_output.data[i][1] = ClaimedElement.data[1][1]
    /\ (SelectLayerUnsupported /\ ~DtypeUnsupported
            /\ mm_vision_tower = ClipVitLarge336
            /\ spc \notin {"dtype", "load"}) =>
          /\ EndedInSetup(mm_vision_select_layer)
          /\ message.text = "Unsupported select layer: {}"
          /\ ~model_constructed
          /\ tower_output = <<>>
          /\ fpc = "start"

C16_Witness ==
    /\ forward_calls = 1
    /\ mm_vision_select_layer = -2
    /\ select_feature_method = "cls_patch"
    /\ tower_output = output_hidden_states(SumSeq(images))[NumLayers]
    /\ tower_output.data[1][1] = NumLayers

\* the shape (batch, sequence, embed_dim) of a hidden state with and
\* without the class token
SequenceShape(tokens) == <<SumSeq(images), tokens, EmbedDim>>

\* C17 as stated: when the tower has run, every element of the list of
\* hidden states, the last one included, has the shape (batch, sequence,
\* embed_dim), and without the class token forward returns the selected
\* element less index 0 of its sequence axis
C17_Claim ==
    forward_calls > 0 =>
        /\ \A l \in 1 .. Len(hidden_shapes) :
              hidden_shapes[l] = SequenceShape(TileTokens + 1)
        /\ select_feature_method = "patch" =>
              /\ tower_output.dims = SequenceShape(TileTokens)
              /\ \A t \in 0 .. SumSeq(images) - 1 :
                 \A p \in 0 .. TileTokens - 1 :
                 \A ch \in 0 .. EmbedDim - 1 :
                    At(tower_output, <<t, p, ch>>)
                        = At(ClaimedElement, <<t, p + 1, ch>>)

\* C18: under a merge with unpadding of an image of more than one tile,
\* the block is the tokens of the base tile in their order, then the rows
\* of a rectangle of the grid from top to bottom, each row its patches
\* from left to right and then one separator; the patch at row r and
\* column c of the tile at row th and column tw of the tiles, which is
\* tile th * num_patch_width + tw after the base tile, is at row
\* th * tile_side + r and column tw * tile_side + c of the grid; the
\* separators are every (columns + 1)-th token after the base tokens
C18_GridOrder ==
    (BeginsSpatial /\ Contains(mm_patch_merge_type, StrUnpad)
        /\ images[1] > 1 /\ HasBlock) =>
        /\ \A j \in 1 .. TileTokens : TokenAt(Block, j) = Feature(0, j - 1, 0)
        /\ BlockTokens = TileTokens + UnpadRows * (UnpadCols + 1)
        /\ \E top \in 0 .. FullRows - UnpadRows :
           \E left \in 0 .. FullCols - UnpadCols :
              \A i \in 0 .. UnpadRows - 1 : \A j \in 0 .. UnpadCols - 1 :
                 RowToken(i, j) = GridPatch(i + top, j + left)
        /\ \A k \in 1 .. UnpadRows * (UnpadCols + 1) :
              IsNewline(TokenAt(Block, TileTokens + k))
                  <=> k % (UnpadCols + 1) = 0

C18_Witness ==
    /\ mm_patch_merge_type = StrSpatialUnpad
    /\ grid_shape = <<2, 2>>
    /\ num_patches_per_side = 2
    /\ HasBlock
    /\ unpad_shape = <<HiddenSize, 4, 4>>
    /\ RowToken(2, 3) = Feature(4, 1, 0)
    /\ IsNewline(RowToken(2, 4))

\* ------------------------------------------------ properties of the split
\* the tiles of the images before image j
TilesBefore(j) == SumSeq(SubSeq(images, 1, j - 1))

\* the tile that token k of the block of image j comes from
TileOf(j, k) == TokenAt(image_features[j], k)[1]

\* C19 as stated: the block of image j is made of the tiles of its own
\* slice, which starts after the tiles of the images before it: its first
\* token comes from the first tile of the slice and, under flat, its
\* tokens are those of the images[j] tiles of the slice in their order
C19_Claim ==
    HasBlock =>
        \A j \in 1 .. Len(images) :
            /\ TileOf(j, 1) = TilesBefore(j)
            /\ mm_patch_merge_type = StrFlat =>
                  /\ image_features[j].dims[1] = images[j] * EncodedTokens
                  /\ \A k \in 1 .. images[j] * EncodedTokens :
                        TileOf(j, k) = TilesBefore(j) + (k - 1) \div EncodedTokens

====
